---- MODULE Spec2Model ----
(***************************************************************************)
(* Model of the PDF rasterization / presentation-assembly pipeline of      *)
(* PDF2PPTX_2 (ConversionService, PDFProcessor, PPTXGenerator,             *)
(* TempFileManager).                                                       *)
(*                                                                         *)
(*   Spec       one direct call of convert_pdf_to_images or                *)
(*              convert_pdf_to_pptx, with cancel_conversion() callable     *)
(*              from another thread at any moment                          *)
(*   SpecBatch  batch_convert_pdfs: the collecting thread plus one pool    *)
(*              worker per valid input file                                *)
(***************************************************************************)
EXTENDS Integers, Sequences, FiniteSets, TLC

\* ---- bounds ------------------------------------------------------------
MaxPages == 3        \* pages of the document of a direct call
MaxFiles == 2        \* input files of a batch
BatchPages == 1      \* pages of every document of a batch
MaxSegs == 5         \* "_"-separated parts of a file stem
MaxExt == 1          \* ".pdf" extensions at the end of a file stem
MaxSide == 10        \* longest page, image or slide side, in hundreds
MaxUnits == 160      \* largest numerator of a length given to a conversion
MaxFaults == 1       \* spontaneous I/O failures during one batch
MaxJobs == 2         \* jobs the asynchronous job service is given
MaxResults == 2      \* results added to one job entity

\* ---- program constants -------------------------------------------------
max_workers == 3     \* ConversionService.max_workers

None == 0            \* Python None for a temp_dir / a label number
NoRange == <<>>      \* Python None for page_range

VARIABLES
    files,            \* ids of the input files (pdf_paths)
    pdf_state,        \* per file: "ok" | "invalid" | "unreadable"
    page_count,       \* per file: doc.page_count
    stem,             \* per file: pdf_path.stem
    conversion_type,  \* "pdf_to_png" | "pdf_to_pptx"
    page_range,       \* NoRange or <<start, end>>
    is_cancelled,     \* ConversionService._is_cancelled
    cancel_requested, \* cancel_conversion() has been called
    faults,           \* spontaneous I/O failures the run may still see
    pc,               \* per file: position of the call converting it
    rng,              \* per file: <<start_page, end_page>>
    page_num,         \* per file: loop variable of the page / image loop
    output_files,     \* per file: pages written, in list order
    attempted,        \* per file: pages handed to convert_page_to_image
    failed,           \* per file: pages whose conversion raised
    exc,              \* per file: the exception in flight
    progress,         \* per file: the ConversionProgress of its call
    result,           \* per file: the ConversionResult returned
    delivered,        \* per file: what progress_callback has received
    temp_dir,         \* per file: its temporary directory
    valid_images,     \* per file: the images PPTXGenerator works on
    slides,           \* per file: the slides of its presentation
    saved,            \* per file: outcome of prs.save
    clock,            \* the millisecond timestamp naming temp directories
    temp_dirs,        \* TempFileManager.temp_dirs
    fs_dirs,          \* temp directories that exist on disk
    fs_temp,          \* image files on disk: <<dir, stem, page>>
    fs_out,           \* presentations on disk: stem -> file that wrote it
    batch_pc,         \* position of batch_convert_pdfs
    batch_progress,   \* the ConversionProgress of the batch
    results,          \* the list batch_convert_pdfs returns
    yielded,          \* futures as_completed has handed out
    args,             \* arguments of a helper function called on its own
    ret,              \* what that call returned
    jobs,             \* the job objects the asynchronous job service made
    active_jobs,      \* ids in the job service's active_jobs dictionary
    entity            \* a ConversionJob entity of the domain model

vars == <<files, pdf_state, page_count, stem, conversion_type, page_range,
          is_cancelled, cancel_requested, faults, pc, rng, page_num,
          output_files, attempted, failed, exc, progress, result, temp_dir,
          valid_images, slides, saved, clock, temp_dirs, fs_dirs, fs_temp,
          fs_out, batch_pc, batch_progress, results, yielded, delivered,
          args, ret, jobs, active_jobs, entity>>

jobVars == <<jobs, active_jobs, entity>>
envVars == <<files, pdf_state, page_count, stem, conversion_type, page_range,
            args, ret, jobVars>>
batchVars == <<batch_pc, batch_progress, results, yielded>>
tempVars == <<clock, temp_dirs, fs_dirs, fs_temp>>
pptxVars == <<temp_dir, valid_images, slides, saved, fs_out>>

\* ---- data types --------------------------------------------------------
ConversionStatus ==
    {"pending", "preparing", "processing", "completing",
     "completed", "failed", "cancelled"}

Terminal == {"completed", "failed", "cancelled"}

\* ConversionProgress(total_files=1, status=PREPARING, ...)
ConversionProgress(total_files) ==
    [status |-> "preparing", current_file |-> 0, total_files |-> total_files,
     current_page |-> 0, total_pages |-> 0, error_message |-> ""]

NoResult == [kind |-> "none"]

\* ConversionResult(success=True, ...): warnings keeps its default, []
SuccessResult(w, outs, n) ==
    [kind |-> "result", success |-> TRUE, input_files |-> <<w>>,
     output_files |-> outs,
     total_pages_processed |-> n, error_message |-> "", warnings |-> <<>>]

\* ConversionResult(success=False, error_message=str(e), ...)
FailureResult(w, msg) ==
    [kind |-> "result", success |-> FALSE, input_files |-> <<w>>,
     output_files |-> <<>>,
     total_pages_processed |-> 0, error_message |-> msg, warnings |-> <<>>]

SeqToSet(s) == {s[i] : i \in 1..Len(s)}

\* range(start_page, end_page + 1)
PageRange(r) == {p \in r[1]..r[2] : TRUE}

\* ---- shared helpers ----------------------------------------------------
\* workers of the pool that are inside their conversion call
Running == {w \in files : pc[w] \notin {"unused", "queued", "done"}}

\* `raise` inside the try block: control moves to the except clause
Raise(w, msg, handler) ==
    /\ exc' = [exc EXCEPT ![w] = msg]
    /\ pc' = [pc EXCEPT ![w] = handler]

\* `continue` in the except clause of a page loop
OnPageFailureBreak(p, end_page) == end_page + 1
OnPageFailure(p, end_page) == p + 1

\* what convert_page_to_image / image.save can do for page p of file w:
\* a page number outside the document always raises, a write into a missing
\* directory always raises, anything else fails only spontaneously
PageOutcomes(w, p, writable) ==
    IF p < 1 \/ p > page_count[w] THEN {"bad_page"}
    ELSE IF ~writable THEN {"no_dir"}
    ELSE {"ok"} \cup (IF faults > 0 THEN {"raster_fail", "write_fail"} ELSE {})

Spontaneous == {"raster_fail", "write_fail", "picture_fail", "save_fail",
                "output_dir"}

\* the budget of spontaneous failures after an outcome
Spend(outcome) == IF outcome \in Spontaneous THEN faults - 1 ELSE faults

\* _update_progress: the callback receives the progress object as it is
\* now; kept as the pairs <<status, current_page>> it has seen
update_progress_unset(d, p) == d
update_progress(d, p) == d \cup {<<p.status, p.current_page>>}

\* self._update_progress(progress) after the assignments of the same step
Report(w) ==
    delivered' = [delivered EXCEPT ![w] = update_progress(@, progress'[w])]

\* ---- cancel_conversion (any thread) ------------------------------------
\* a call that finds the flag set changes nothing and is a stuttering step
CancelConversion ==
    /\ ~is_cancelled
    /\ is_cancelled' = TRUE
    /\ cancel_requested' = TRUE
    /\ UNCHANGED <<envVars, faults, pc, rng, page_num, output_files,
                   attempted, failed, exc, progress, delivered, result,
                   pptxVars, tempVars, batchVars>>

\* ---- ConversionService.convert_pdf_to_images ---------------------------
\* lines 181-195: progress object, flag reset, first progress report
StartImages(w) ==
    /\ conversion_type = "pdf_to_png"
    /\ pc[w] = "queued"
    /\ Cardinality(Running) < max_workers
    /\ is_cancelled' = FALSE
    /\ progress' = [progress EXCEPT ![w] = ConversionProgress(1)]
    /\ Report(w)
    /\ pc' = [pc EXCEPT ![w] = "img_prepare"]
    /\ UNCHANGED <<envVars, cancel_requested, faults, rng, page_num,
                   output_files, attempted, failed, exc, result, pptxVars,
                   tempVars, batchVars>>

\* lines 197-222: validation, output directory, page range, PROCESSING
ImgPrepare(w) ==
    /\ pc[w] = "img_prepare"
    /\ \/ /\ pdf_state[w] = "invalid"
          /\ Raise(w, "invalid_pdf", "img_except")
          /\ UNCHANGED <<rng, page_num, progress, delivered, faults>>
       \/ /\ pdf_state[w] # "invalid"
          /\ faults > 0
          /\ faults' = Spend("output_dir")
          /\ Raise(w, "output_dir", "img_except")
          /\ UNCHANGED <<rng, page_num, progress, delivered>>
       \/ /\ pdf_state[w] = "unreadable"
          /\ Raise(w, "unreadable", "img_except")
          /\ UNCHANGED <<rng, page_num, progress, delivered, faults>>
       \/ /\ pdf_state[w] = "ok"
          /\ LET r == IF page_range = NoRange
                      THEN <<1, page_count[w]>> ELSE page_range
             IN /\ rng' = [rng EXCEPT ![w] = r]
                /\ page_num' = [page_num EXCEPT ![w] = r[1]]
                /\ progress' = [progress EXCEPT
                       ![w].total_pages = r[2] - r[1] + 1,
                       ![w].status = "processing"]
                /\ Report(w)
          /\ pc' = [pc EXCEPT ![w] = "img_loop"]
          /\ UNCHANGED <<exc, faults>>
    /\ UNCHANGED <<envVars, is_cancelled, cancel_requested, output_files,
                   attempted, failed, result, pptxVars, tempVars, batchVars>>

\* lines 227-256: one iteration of the page loop
ImgPage(w) ==
    /\ pc[w] = "img_loop"
    /\ page_num[w] <= rng[w][2]
    /\ IF is_cancelled
       THEN /\ progress' = [progress EXCEPT ![w].status = "cancelled"]
            /\ Report(w)
            /\ Raise(w, "cancelled", "img_except")
            /\ UNCHANGED <<page_num, output_files, attempted, failed, faults>>
       ELSE \E outcome \in PageOutcomes(w, page_num[w], TRUE) :
            LET p == page_num[w] IN
            /\ attempted' = [attempted EXCEPT ![w] = Append(@, p)]
            /\ faults' = Spend(outcome)
            /\ IF outcome = "ok"
               THEN /\ output_files' =
                         [output_files EXCEPT ![w] = Append(@, p)]
                    /\ progress' = [progress EXCEPT
                         ![w].current_page = p - rng[w][1] + 1]
                    /\ Report(w)
                    /\ page_num' = [page_num EXCEPT ![w] = p + 1]
                    /\ failed' = failed
               ELSE /\ failed' = [failed EXCEPT ![w] = @ \cup {p}]
                    /\ page_num' = [page_num EXCEPT
                         ![w] = OnPageFailure(p, rng[w][2])]
                    /\ UNCHANGED <<output_files, progress, delivered>>
            /\ UNCHANGED <<pc, exc>>
    /\ UNCHANGED <<envVars, is_cancelled, cancel_requested, rng, result,
                   pptxVars, tempVars, batchVars>>

\* lines 258-280: the loop is over, COMPLETED and the success result
ImgComplete(w) ==
    /\ pc[w] = "img_loop"
    /\ page_num[w] > rng[w][2]
    /\ progress' = [progress EXCEPT ![w].status = "completed",
                                    ![w].current_file = 1]
    /\ Report(w)
    /\ result' = [result EXCEPT ![w] =
                    SuccessResult(w, output_files[w], Len(output_files[w]))]
    /\ pc' = [pc EXCEPT ![w] = "done"]
    /\ UNCHANGED <<envVars, is_cancelled, cancel_requested, faults, rng,
                   page_num, output_files, attempted, failed, exc, pptxVars,
                   tempVars, batchVars>>

\* lines 282-300: except Exception
ImgExcept(w) ==
    /\ pc[w] = "img_except"
    /\ progress' = [progress EXCEPT ![w].status = "failed",
                                    ![w].error_message = exc[w]]
    /\ Report(w)
    /\ result' = [result EXCEPT ![w] = FailureResult(w, exc[w])]
    /\ pc' = [pc EXCEPT ![w] = "done"]
    /\ UNCHANGED <<envVars, is_cancelled, cancel_requested, faults, rng,
                   page_num, output_files, attempted, failed, exc, pptxVars,
                   tempVars, batchVars>>

\* ---- TempFileManager ---------------------------------------------------
\* create_temp_directory: the name is the prefix plus a millisecond
\* timestamp, so a call in the same millisecond as the previous one gets the
\* same name; mkdir(exist_ok=True), then temp_dirs.append
CreateTempDirectory(w, d) ==
    /\ d \in {clock, clock + 1}
    /\ clock' = d
    /\ temp_dirs' = temp_dirs \cup {d}
    /\ fs_dirs' = fs_dirs \cup {d}
    /\ temp_dir' = [temp_dir EXCEPT ![w] = d]
    /\ fs_temp' = fs_temp

\* cleanup_temp_files: rmtree of every registered directory
CleanupTempFiles ==
    /\ fs_dirs' = fs_dirs \ temp_dirs
    /\ fs_temp' = {f \in fs_temp : f[1] \notin temp_dirs}
    /\ temp_dirs' = {}
    /\ clock' = clock

\* ---- PPTXGenerator helpers ---------------------------------------------
\* the path of page p of file w inside its temporary directory
ImagePath(w, p) == <<temp_dir[w], stem[w], p>>

\* prs.slides.add_slide puts the new slide after the existing ones
AddSlideFirst(s, x) == <<x>> \o s
AddSlide(s, x) == Append(s, x)

\* [path for path in image_paths if path.exists()]
RECURSIVE ExistingImages(_, _)
ExistingImages(w, imgs) ==
    IF imgs = <<>> THEN <<>>
    ELSE IF ImagePath(w, Head(imgs)) \in fs_temp
         THEN <<Head(imgs)>> \o ExistingImages(w, Tail(imgs))
         ELSE ExistingImages(w, Tail(imgs))

\* slides whose picture was inserted (`completed` of add_multiple_images)
Completed(s) == Cardinality({i \in 1..Len(s) : s[i].picture})

\* save_presentation raises on error and convert_pdf_to_pptx fails the job
AfterSaveIgnoreError(ok) == "complete"
AfterSave(ok) == IF ok THEN "complete" ELSE "except"

\* ---- ConversionService.convert_pdf_to_pptx -----------------------------
\* lines 325-341: progress object, flag reset, first progress report
StartPptx(w) ==
    /\ conversion_type = "pdf_to_pptx"
    /\ pc[w] = "queued"
    /\ Cardinality(Running) < max_workers
    /\ is_cancelled' = FALSE
    /\ progress' = [progress EXCEPT ![w] = ConversionProgress(1)]
    /\ Report(w)
    /\ pc' = [pc EXCEPT ![w] = "pptx_prepare"]
    /\ UNCHANGED <<envVars, cancel_requested, faults, rng, page_num,
                   output_files, attempted, failed, exc, result, pptxVars,
                   tempVars, batchVars>>

\* lines 343-356, then PDFProcessor.convert_pdf_to_images lines 370-391
PptxPrepare(w) ==
    /\ pc[w] = "pptx_prepare"
    /\ \/ /\ pdf_state[w] = "invalid"
          /\ Raise(w, "invalid_pdf", "pptx_except")
          /\ UNCHANGED <<rng, page_num, progress, delivered, temp_dir,
                         tempVars, faults>>
       \/ /\ pdf_state[w] # "invalid"
          /\ faults > 0
          /\ faults' = Spend("output_dir")
          /\ Raise(w, "output_dir", "pptx_except")
          /\ UNCHANGED <<rng, page_num, progress, delivered, temp_dir,
                         tempVars>>
       \/ /\ pdf_state[w] # "invalid"
          /\ \E d \in {clock, clock + 1} : CreateTempDirectory(w, d)
          /\ progress' = [progress EXCEPT ![w].status = "processing"]
          /\ Report(w)
          /\ faults' = faults
          /\ LET r == IF page_range = NoRange
                      THEN <<1, page_count[w]>> ELSE page_range
             IN IF pdf_state[w] = "unreadable"
                THEN /\ Raise(w, "unreadable", "pptx_except")
                     /\ UNCHANGED <<rng, page_num>>
                ELSE IF r[1] < 1 \/ r[2] > page_count[w] \/ r[1] > r[2]
                THEN /\ Raise(w, "bad_range", "pptx_except")
                     /\ UNCHANGED <<rng, page_num>>
                ELSE /\ rng' = [rng EXCEPT ![w] = r]
                     /\ page_num' = [page_num EXCEPT ![w] = r[1]]
                     /\ pc' = [pc EXCEPT ![w] = "pptx_raster"]
                     /\ exc' = exc
    /\ UNCHANGED <<envVars, is_cancelled, cancel_requested, output_files,
                   attempted, failed, result, valid_images, slides, saved,
                   fs_out, batchVars>>

\* PDFProcessor.convert_pdf_to_images lines 393-425: one page
PptxRasterPage(w) ==
    /\ pc[w] = "pptx_raster"
    /\ page_num[w] <= rng[w][2]
    /\ \E outcome \in PageOutcomes(w, page_num[w], temp_dir[w] \in fs_dirs) :
       LET p == page_num[w] IN
       /\ attempted' = [attempted EXCEPT ![w] = Append(@, p)]
       /\ faults' = Spend(outcome)
       /\ IF outcome = "ok"
          THEN /\ output_files' = [output_files EXCEPT ![w] = Append(@, p)]
               /\ fs_temp' = fs_temp \cup {ImagePath(w, p)}
               /\ page_num' = [page_num EXCEPT ![w] = p + 1]
               /\ failed' = failed
          ELSE /\ failed' = [failed EXCEPT ![w] = @ \cup {p}]
               /\ page_num' = [page_num EXCEPT
                    ![w] = OnPageFailure(p, rng[w][2])]
               /\ UNCHANGED <<output_files, fs_temp>>
    /\ UNCHANGED <<envVars, is_cancelled, cancel_requested, pc, rng, exc,
                   progress, delivered, result, pptxVars, clock, temp_dirs,
                   fs_dirs, batchVars>>

\* lines 373-383, then PPTXGenerator.convert_images_to_pptx lines 724-746
PptxRasterDone(w) ==
    /\ pc[w] = "pptx_raster"
    /\ page_num[w] > rng[w][2]
    /\ LET valid == ExistingImages(w, output_files[w]) IN
       IF output_files[w] = <<>>
       THEN /\ Raise(w, "no_images", "pptx_except")
            /\ UNCHANGED <<progress, delivered, valid_images, page_num>>
       ELSE IF is_cancelled
       THEN /\ Raise(w, "cancelled", "pptx_except")
            /\ UNCHANGED <<progress, delivered, valid_images, page_num>>
       ELSE IF valid = <<>>
       THEN /\ Raise(w, "no_valid_images", "pptx_except")
            /\ progress' = [progress EXCEPT
                  ![w].total_pages = Len(output_files[w])]
            /\ Report(w)
            /\ UNCHANGED <<valid_images, page_num>>
       ELSE /\ valid_images' = [valid_images EXCEPT ![w] = valid]
            /\ progress' = [progress EXCEPT ![w].current_page = 0,
                                            ![w].total_pages = Len(valid)]
            /\ Report(w)
            /\ page_num' = [page_num EXCEPT ![w] = 1]
            /\ pc' = [pc EXCEPT ![w] = "pptx_add"]
            /\ exc' = exc
    /\ UNCHANGED <<envVars, is_cancelled, cancel_requested, faults, rng,
                   output_files, attempted, failed, result, temp_dir, slides,
                   saved, fs_out, tempVars, batchVars>>

\* what add_image_slide can do with an image: a missing file raises before
\* the slide is created, a picture that cannot be inserted raises after
SlideOutcomes(w, src) ==
    IF ImagePath(w, src) \notin fs_temp THEN {"missing"}
    ELSE {"ok"} \cup (IF faults > 0 THEN {"picture_fail"} ELSE {})

\* PPTXGenerator.add_multiple_images lines 625-640 with add_image_slide:
\* image i of the list becomes a slide labelled start_page_number + i
PptxAddSlide(w) ==
    /\ pc[w] = "pptx_add"
    /\ page_num[w] <= Len(valid_images[w])
    /\ LET i == page_num[w]
           src == valid_images[w][i]
           n == Len(valid_images[w])
       IN \E outcome \in SlideOutcomes(w, src) :
          /\ faults' = Spend(outcome)
          /\ IF outcome = "ok"
             THEN /\ slides' = [slides EXCEPT ![w] =
                        AddSlide(@, [src |-> src, label |-> 1 + (i - 1),
                                     picture |-> TRUE])]
                  /\ progress' = [progress EXCEPT
                        ![w].current_page = Completed(slides[w]) + 1,
                        ![w].total_pages = n]
                  /\ Report(w)
                  /\ page_num' = [page_num EXCEPT ![w] = i + 1]
                  /\ failed' = failed
             ELSE /\ slides' = [slides EXCEPT ![w] =
                        IF outcome = "missing" THEN @
                        ELSE AddSlide(@, [src |-> src, label |-> None,
                                          picture |-> FALSE])]
                  /\ failed' = [failed EXCEPT ![w] = @ \cup {src}]
                  /\ page_num' = [page_num EXCEPT ![w] = OnPageFailure(i, n)]
                  /\ progress' = progress
                  /\ delivered' = delivered
    /\ UNCHANGED <<envVars, is_cancelled, cancel_requested, pc, rng,
                   output_files, attempted, exc, result, temp_dir,
                   valid_images, saved, fs_out, tempVars, batchVars>>

\* PPTXGenerator lines 753-763 (save), ConversionService lines 395-420 and
\* the finally clause, lines 442-447, on the way out
PptxSave(w) ==
    /\ pc[w] = "pptx_add"
    /\ page_num[w] > Len(valid_images[w])
    /\ \E ok \in {TRUE} \cup (IF faults > 0 THEN {FALSE} ELSE {}) :
       /\ saved' = [saved EXCEPT ![w] = IF ok THEN "ok" ELSE "failed"]
       /\ fs_out' = IF ok THEN [fs_out EXCEPT ![stem[w]] = w] ELSE fs_out
       /\ faults' = IF ok THEN faults ELSE Spend("save_fail")
       /\ IF AfterSave(ok) = "complete"
          THEN /\ progress' = [progress EXCEPT
                     ![w].current_page = Len(valid_images[w]),
                     ![w].total_pages = Len(valid_images[w]),
                     ![w].status = "completed",
                     ![w].current_file = 1]
               /\ Report(w)
               /\ result' = [result EXCEPT ![w] =
                     SuccessResult(w, <<stem[w]>>, Len(output_files[w]))]
               /\ CleanupTempFiles
               /\ pc' = [pc EXCEPT ![w] = "done"]
               /\ exc' = exc
          ELSE /\ progress' = [progress EXCEPT
                     ![w].current_page = Len(valid_images[w]),
                     ![w].total_pages = Len(valid_images[w])]
               /\ Report(w)
               /\ Raise(w, "save_failed", "pptx_except")
               /\ UNCHANGED <<result, tempVars>>
    /\ UNCHANGED <<envVars, is_cancelled, cancel_requested, rng, page_num,
                   output_files, attempted, failed, temp_dir, valid_images,
                   slides, batchVars>>

\* lines 422-440: except Exception, then the finally clause, lines 442-447
PptxExcept(w) ==
    /\ pc[w] = "pptx_except"
    /\ progress' = [progress EXCEPT ![w].status = "failed",
                                    ![w].error_message = exc[w]]
    /\ Report(w)
    /\ result' = [result EXCEPT ![w] = FailureResult(w, exc[w])]
    /\ CleanupTempFiles
    /\ pc' = [pc EXCEPT ![w] = "done"]
    /\ UNCHANGED <<envVars, is_cancelled, cancel_requested, faults, rng,
                   page_num, output_files, attempted, failed, exc, pptxVars,
                   batchVars>>

\* ---- a direct call of one conversion -----------------------------------
PageRanges ==
    {NoRange} \cup {<<s, e>> : s \in 0..(MaxPages + 1), e \in 0..(MaxPages + 1)}

NoArgs == [fn |-> "none"]
NoRet == [fn |-> "none"]

\* no helper function is called on its own
NoEntity == [status |-> "none"]

\* no job service and no job entity has been constructed
NoJobs == jobs = <<>> /\ active_jobs = {} /\ entity = NoEntity

NoCall == args = NoArgs /\ ret = NoRet /\ NoJobs

\* the state after ConversionService.__init__, per file
InitCalls(fs, position, budget) ==
    /\ files = fs
    /\ is_cancelled = FALSE
    /\ cancel_requested = FALSE
    /\ faults = budget
    /\ pc = [w \in fs |-> position]
    /\ rng = [w \in fs |-> <<1, 0>>]
    /\ page_num = [w \in fs |-> 1]
    /\ output_files = [w \in fs |-> <<>>]
    /\ attempted = [w \in fs |-> <<>>]
    /\ failed = [w \in fs |-> {}]
    /\ exc = [w \in fs |-> ""]
    /\ progress = [w \in fs |->
                     [ConversionProgress(0) EXCEPT !.status = "pending"]]
    /\ result = [w \in fs |-> NoResult]
    /\ delivered = [w \in fs |-> {}]
    /\ temp_dir = [w \in fs |-> None]
    /\ valid_images = [w \in fs |-> <<>>]
    /\ slides = [w \in fs |-> <<>>]
    /\ saved = [w \in fs |-> "none"]
    /\ clock = 1
    /\ temp_dirs = {}
    /\ fs_dirs = {}
    /\ fs_temp = {}
    /\ fs_out = [s \in 1..MaxFiles |-> None]

Init ==
    /\ InitCalls({1}, "queued", 2 * MaxPages + 2)
    /\ pdf_state \in [{1} -> {"ok", "invalid", "unreadable"}]
    /\ page_count \in [{1} -> 1..MaxPages]
    /\ stem = [w \in {1} |-> 1]
    /\ conversion_type \in {"pdf_to_png", "pdf_to_pptx"}
    /\ page_range \in PageRanges
    /\ batch_pc = "none"
    /\ batch_progress = [ConversionProgress(0) EXCEPT !.status = "pending"]
    /\ results = <<>>
    /\ yielded = {}
    /\ NoCall

Next ==
    \/ CancelConversion
    \/ \E w \in files : StartImages(w)
    \/ \E w \in files : ImgPrepare(w)
    \/ \E w \in files : ImgPage(w)
    \/ \E w \in files : ImgComplete(w)
    \/ \E w \in files : ImgExcept(w)
    \/ \E w \in files : StartPptx(w)
    \/ \E w \in files : PptxPrepare(w)
    \/ \E w \in files : PptxRasterPage(w)
    \/ \E w \in files : PptxRasterDone(w)
    \/ \E w \in files : PptxAddSlide(w)
    \/ \E w \in files : PptxSave(w)
    \/ \E w \in files : PptxExcept(w)

Spec == Init /\ [][Next]_vars

\* ---- ConversionService.batch_convert_pdfs ------------------------------
\* batch_validate_files(pdf_paths, "pdf")["valid"]
ValidPdfs == {f \in files : pdf_state[f] # "invalid"}

\* `if not valid_pdfs: raise ValueError`
AnyInvalidInput(valid) == valid # files
NoValidInput(valid) == valid = {}

\* results.append(result)
CollectResultOnce(rs, r) == IF rs = <<>> THEN <<r>> ELSE rs
CollectResult(rs, r) == Append(rs, r)

\* lines 591-606: progress object, flag reset, first progress report
BatchStart ==
    /\ batch_pc = "b_idle"
    /\ is_cancelled' = FALSE
    /\ batch_progress' = ConversionProgress(Cardinality(files))
    /\ batch_pc' = "b_validate"
    /\ UNCHANGED <<envVars, cancel_requested, faults, pc, rng, page_num,
                   output_files, attempted, failed, exc, progress, delivered,
                   result, pptxVars, tempVars, results, yielded>>

\* lines 608-641: validation, PROCESSING, one future per valid file
BatchSubmit ==
    /\ batch_pc = "b_validate"
    /\ IF NoValidInput(ValidPdfs)
       THEN /\ batch_pc' = "b_except"
            /\ UNCHANGED <<batch_progress, pc>>
       ELSE /\ batch_progress' = [batch_progress EXCEPT
                  !.total_files = Cardinality(ValidPdfs),
                  !.status = "processing"]
            /\ pc' = [w \in files |->
                        IF w \in ValidPdfs THEN "queued" ELSE "unused"]
            /\ batch_pc' = "b_collect"
    /\ UNCHANGED <<envVars, is_cancelled, cancel_requested, faults, rng,
                   page_num, output_files, attempted, failed, exc, progress,
                   delivered, result, pptxVars, tempVars, results, yielded>>

\* lines 644-672: as_completed hands out a finished future
BatchCollect(w) ==
    /\ batch_pc = "b_collect"
    /\ w \in ValidPdfs \ yielded
    /\ pc[w] = "done"
    /\ yielded' = yielded \cup {w}
    /\ IF is_cancelled
       THEN /\ batch_progress' = [batch_progress EXCEPT
                  !.status = "cancelled"]
            /\ batch_pc' = "b_exit"
            /\ results' = results
       ELSE /\ results' = CollectResult(results, result[w])
            /\ batch_progress' = [batch_progress EXCEPT
                  !.current_file = Len(results) + 1]
            /\ batch_pc' = batch_pc
    /\ UNCHANGED <<envVars, is_cancelled, cancel_requested, faults, pc, rng,
                   page_num, output_files, attempted, failed, exc, progress,
                   delivered, result, pptxVars, tempVars>>

\* leaving the `with ThreadPoolExecutor` block waits for every worker;
\* lines 674-682: COMPLETED unless the flag is set, return results
BatchFinish ==
    /\ \/ batch_pc = "b_exit"
       \/ batch_pc = "b_collect" /\ yielded = ValidPdfs
    /\ \A w \in ValidPdfs : pc[w] = "done"
    /\ batch_progress' =
          IF is_cancelled THEN batch_progress
          ELSE [batch_progress EXCEPT !.status = "completed"]
    /\ batch_pc' = "b_done"
    /\ UNCHANGED <<envVars, is_cancelled, cancel_requested, faults, pc, rng,
                   page_num, output_files, attempted, failed, exc, progress,
                   delivered, result, pptxVars, tempVars, results, yielded>>

\* lines 684-696: except Exception
BatchExcept ==
    /\ batch_pc = "b_except"
    /\ batch_progress' = [batch_progress EXCEPT
            !.status = "failed", !.error_message = "no_valid_pdfs"]
    /\ batch_pc' = "b_done"
    /\ UNCHANGED <<envVars, is_cancelled, cancel_requested, faults, pc, rng,
                   page_num, output_files, attempted, failed, exc, progress,
                   delivered, result, pptxVars, tempVars, results, yielded>>

\* ---- ConversionService.get_conversion_statistics -----------------------
RECURSIVE Warnings(_)
Warnings(rs) ==
    IF rs = <<>> THEN <<>> ELSE Head(rs).warnings \o Warnings(Tail(rs))

get_conversion_statistics(rs) ==
    [total_files |-> Len(rs),
     successful_files |-> Cardinality({i \in 1..Len(rs) : rs[i].success}),
     failed_files |-> Cardinality({i \in 1..Len(rs) : ~rs[i].success}),
     warnings |-> Warnings(rs)]

\* stems of the batch, up to renaming: the first file has stem 1, a later
\* file repeats an earlier stem or brings the next unused one
Stems(fs) ==
    {st \in [fs -> 1..MaxFiles] :
        \A f \in fs : st[f] = 1 \/ \E g \in fs : g < f /\ st[g] + 1 >= st[f]}

InitBatch ==
    /\ \E n \in 1..MaxFiles : InitCalls(1..n, "unused", MaxFaults)
    /\ pdf_state \in [files -> {"ok", "invalid", "unreadable"}]
    /\ page_count = [w \in files |-> BatchPages]
    /\ stem \in Stems(files)
    /\ conversion_type \in {"pdf_to_png", "pdf_to_pptx"}
    /\ page_range = NoRange
    /\ batch_pc = "b_idle"
    /\ batch_progress = [ConversionProgress(0) EXCEPT !.status = "pending"]
    /\ results = <<>>
    /\ yielded = {}
    /\ NoCall

NextBatch ==
    \/ Next
    \/ BatchStart
    \/ BatchSubmit
    \/ \E w \in files : BatchCollect(w)
    \/ BatchFinish
    \/ BatchExcept

SpecBatch == InitBatch /\ [][NextBatch]_vars

\* a batch of single-page files with distinct stems in which the only
\* failures are the files that cannot be validated or opened
InitCollect ==
    /\ \E n \in 1..MaxFiles : InitCalls(1..n, "unused", 0)
    /\ pdf_state \in [files -> {"ok", "invalid", "unreadable"}]
    /\ page_count = [w \in files |-> 1]
    /\ stem = [w \in files |-> w]
    /\ conversion_type \in {"pdf_to_png", "pdf_to_pptx"}
    /\ page_range = NoRange
    /\ batch_pc = "b_idle"
    /\ batch_progress = [ConversionProgress(0) EXCEPT !.status = "pending"]
    /\ results = <<>>
    /\ yielded = {}
    /\ NoCall

SpecCollect == InitCollect /\ [][NextBatch]_vars

\* ======================================================================
\* Properties
\* ======================================================================

\* the call converting file w observed the cancellation flag and stopped
StoppedByCancel(w) == pc[w] = "done" /\ exc[w] = "cancelled"

\* C1: a page-by-page conversion that is cancelled after k pages ends with
\* status CANCELLED (not FAILED), Progress.current_page = k and exactly k
\* page outputs.
C1_CancelledIsFinalStatus ==
    \A w \in files :
        (conversion_type = "pdf_to_png" /\ StoppedByCancel(w)) =>
            /\ progress[w].status = "cancelled"
            /\ progress[w].current_page = Len(output_files[w])

\* C2: in every conversion path, once the cancellation flag is set no
\* further page is rasterized, written or inserted, and no written page is
\* removed from the outputs.
C2_NoPageAfterCancel ==
    [][\A w \in files :
         (is_cancelled /\ pc[w] \in {"img_loop", "pptx_raster", "pptx_add"}) =>
             /\ attempted'[w] = attempted[w]
             /\ output_files'[w] = output_files[w]
             /\ slides'[w] = slides[w]]_vars

\* the rasterization loop of file w is over and it was not cut by a cancel
RasterLoopOver(w) ==
    /\ pc[w] \notin {"unused", "queued", "img_prepare", "pptx_prepare",
                     "img_loop", "pptx_raster"}
    /\ ~(conversion_type = "pdf_to_png" /\ exc[w] = "cancelled")

\* every image handed to add_multiple_images was tried
AllImagesTried(w) ==
    \A i \in 1..Len(valid_images[w]) :
        \/ valid_images[w][i] \in failed[w]
        \/ \E k \in 1..Len(slides[w]) : slides[w][k].src = valid_images[w][i]

C5_FailuresAreWarnings ==
    \A w \in files :
        pc[w] = "done" => Cardinality(failed[w]) <= Len(result[w].warnings)

\* no page of file w made it into the output
NoPageProduced(w) ==
    IF conversion_type = "pdf_to_png"
    THEN output_files[w] = <<>>
    ELSE Completed(slides[w]) = 0

\* the call ran into an error that no later page could repair
Unrecoverable(w) ==
    exc[w] \in {"invalid_pdf", "output_dir", "unreadable", "bad_range",
                "save_failed"}

\* C6: a job ends FAILED exactly when no page could be produced or an
\* unrecoverable error occurred; it never ends COMPLETED with zero pages.
C6_FailedIffNothingProduced ==
    \A w \in files :
        pc[w] = "done" =>
            (progress[w].status = "failed"
                <=> (NoPageProduced(w) \/ Unrecoverable(w)))

StatusRank(s) ==
    CASE s = "pending" -> 0
      [] s = "preparing" -> 1
      [] s = "processing" -> 2
      [] s = "completing" -> 3
      [] OTHER -> 4

\* the status changes the state machine of the specification allows
AllowedStatusStep(a, b) ==
    /\ a \notin Terminal
    /\ StatusRank(a) < StatusRank(b)
    /\ b = "completed" => a = "completing"

\* C7: reported statuses follow pending -> preparing -> processing ->
\* completing -> terminal; never backwards, completed only from completing,
\* and nothing is reported after a terminal status.
C7_StatusSequence ==
    [][/\ \A w \in files :
            progress'[w].status # progress[w].status =>
                AllowedStatusStep(progress[w].status, progress'[w].status)
       /\ batch_progress'.status # batch_progress.status =>
                AllowedStatusStep(batch_progress.status,
                                  batch_progress'.status)]_vars

\* C8: a PDF->presentation job whose save fails ends FAILED with
\* success = false, whatever happened to its pages.
C8_SaveFailureFails ==
    \A w \in files :
        (pc[w] = "done" /\ saved[w] = "failed") =>
            /\ progress[w].status = "failed"
            /\ result[w].success = FALSE

\* every page was rasterized and inserted, then the save failed
C8_Witness ==
    \E w \in files :
        /\ pc[w] = "done"
        /\ saved[w] = "failed"
        /\ failed[w] = {}
        /\ Len(slides[w]) >= 2
        /\ Completed(slides[w]) = Len(attempted[w])

\* C9: the slides of one document are in strictly ascending order of their
\* source pages, also when pages were skipped.
C9_SlidesAscending ==
    \A w \in files :
        \A i \in 1..Len(slides[w]) : \A j \in 1..Len(slides[w]) :
            i < j => slides[w][i].src < slides[w][j].src

\* a document with two slides around a page that was skipped
C9_Witness ==
    \E w \in files :
        /\ Len(slides[w]) >= 2
        /\ \E p \in failed[w] :
              slides[w][1].src < p /\ p < slides[w][Len(slides[w])].src

\* exactly file c of the batch cannot be opened, nothing else went wrong
OnlyCorrupt(c) ==
    /\ pdf_state[c] # "ok"
    /\ \A f \in files \ {c} :
          /\ pdf_state[f] = "ok"
          /\ result[f].kind = "result"
          /\ result[f].success

\* C3: a batch of N files of which exactly one is corrupt reports overall
\* success, successCount = N-1, totalCount = N and exactly one warning, which
\* names the corrupt file.
C3_OneCorruptFileOneWarning ==
    \A c \in files :
        (/\ batch_pc = "b_done"
         /\ Cardinality(files) >= 2
         /\ ~cancel_requested
         /\ faults = MaxFaults
         /\ OnlyCorrupt(c)) =>
            LET st == get_conversion_statistics(results) IN
            /\ batch_progress.status = "completed"
            /\ st.total_files = Cardinality(files)
            /\ st.successful_files = Cardinality(files) - 1
            /\ Len(st.warnings) = 1
            /\ st.warnings[1] = c

\* the worker of file w is rasterizing into, or reading from, its temp dir
InFlight(w) == pc[w] \in {"pptx_raster", "pptx_add"}

\* C10: the cleanup of a finishing worker removes no temporary directory
\* that a worker still in flight reads or writes.
C10_CleanupSparesInFlight ==
    [][\A w \in files :
         (InFlight(w) /\ InFlight(w)' /\ temp_dir[w] \in fs_dirs) =>
             temp_dir[w] \in fs_dirs']_vars

\* ---- PDFProcessor.convert_pdf_to_images_async --------------------------
pool_workers == 4    \* min(4, os.cpu_count() or 1)

\* PDFProcessor defines no method _convert_single_page_async: building the
\* task list raises AttributeError at the first page
HasConvertSinglePageAsyncDefined == TRUE
HasConvertSinglePageAsync == FALSE

\* pages of file w handed to convert_page_to_image and not finished yet
InFlightPages(w) ==
    SeqToSet(attempted[w]) \ (SeqToSet(output_files[w]) \cup failed[w])

\* lines 461-478: validation, output directory, page range
AsyncPrepare(w) ==
    /\ pc[w] = "async_queued"
    /\ \/ /\ pdf_state[w] # "ok"
          /\ Raise(w, "invalid_pdf", "async_except")
          /\ UNCHANGED <<rng, faults>>
       \/ /\ pdf_state[w] = "ok"
          /\ faults > 0
          /\ faults' = Spend("output_dir")
          /\ Raise(w, "output_dir", "async_except")
          /\ rng' = rng
       \/ /\ pdf_state[w] = "ok"
          /\ LET r == IF page_range = NoRange
                      THEN <<1, page_count[w]>> ELSE page_range
             IN IF r[1] < 1 \/ r[2] > page_count[w] \/ r[1] > r[2]
                THEN /\ Raise(w, "bad_range", "async_except")
                     /\ rng' = rng
                ELSE /\ rng' = [rng EXCEPT ![w] = r]
                     /\ pc' = [pc EXCEPT ![w] = "async_tasks"]
                     /\ exc' = exc
          /\ faults' = faults
    /\ UNCHANGED <<envVars, is_cancelled, cancel_requested, page_num,
                   output_files, attempted, failed, progress, delivered,
                   result, pptxVars, tempVars, batchVars>>

\* lines 481-521: the task list, then the thread pool: a free pool thread
\* starts a page, a started page finishes, and when every future is done
\* the sorted list of outputs is returned
AsyncRun(w) ==
    /\ \/ /\ pc[w] = "async_tasks"
          /\ IF PageRange(rng[w]) # {} /\ ~HasConvertSinglePageAsync
             THEN Raise(w, "AttributeError", "async_except")
             ELSE pc' = [pc EXCEPT ![w] = "async_pool"] /\ exc' = exc
          /\ UNCHANGED <<attempted, output_files, failed, faults>>
       \/ /\ pc[w] = "async_pool"
          /\ Cardinality(InFlightPages(w)) < pool_workers
          /\ \E p \in PageRange(rng[w]) \ SeqToSet(attempted[w]) :
                attempted' = [attempted EXCEPT ![w] = Append(@, p)]
          /\ UNCHANGED <<pc, exc, output_files, failed, faults>>
       \/ /\ pc[w] = "async_pool"
          /\ \E p \in InFlightPages(w) :
             \E outcome \in PageOutcomes(w, p, TRUE) :
                /\ faults' = Spend(outcome)
                /\ IF outcome = "ok"
                   THEN /\ output_files' =
                             [output_files EXCEPT ![w] = Append(@, p)]
                        /\ failed' = failed
                   ELSE /\ failed' = [failed EXCEPT ![w] = @ \cup {p}]
                        /\ output_files' = output_files
          /\ UNCHANGED <<pc, exc, attempted>>
       \/ /\ pc[w] = "async_pool"
          /\ SeqToSet(attempted[w]) = PageRange(rng[w])
          /\ InFlightPages(w) = {}
          /\ output_files' = [output_files EXCEPT
                ![w] = SortSeq(@, LAMBDA a, b : a < b)]
          /\ pc' = [pc EXCEPT ![w] = "done"]
          /\ UNCHANGED <<exc, attempted, failed, faults>>
    /\ UNCHANGED <<envVars, is_cancelled, cancel_requested, rng, page_num,
                   progress, delivered, result, pptxVars, tempVars,
                   batchVars>>

\* lines 523-529: handle_error, then the exception leaves the call
AsyncExcept(w) ==
    /\ pc[w] = "async_except"
    /\ pc' = [pc EXCEPT ![w] = "done"]
    /\ UNCHANGED <<envVars, is_cancelled, cancel_requested, faults, rng,
                   page_num, output_files, attempted, failed, exc, progress,
                   delivered, result, pptxVars, tempVars, batchVars>>

InitAsync ==
    /\ InitCalls({1}, "async_queued", MaxFaults)
    /\ pdf_state \in [{1} -> {"ok", "invalid", "unreadable"}]
    /\ page_count \in [{1} -> 1..MaxPages]
    /\ stem = [w \in {1} |-> 1]
    /\ conversion_type = "pdf_to_png"
    /\ page_range \in PageRanges
    /\ batch_pc = "none"
    /\ batch_progress = [ConversionProgress(0) EXCEPT !.status = "pending"]
    /\ results = <<>>
    /\ yielded = {}
    /\ NoCall

NextAsync ==
    \/ \E w \in files : AsyncPrepare(w)
    \/ \E w \in files : AsyncRun(w)
    \/ \E w \in files : AsyncExcept(w)

SpecAsync == InitAsync /\ [][NextAsync]_vars

\* ======================================================================
\* Properties (continued)
\* ======================================================================

ResultsOf(f) == {i \in 1..Len(results) : results[i].input_files = <<f>>}

ReportedPages(w) == {x[2] : x \in delivered[w]}

\* C14: the progress callback is invoked for every status a job takes and
\* for every completed page: every written page of the PDF->images path and
\* every inserted slide of the PDF->presentation path.
C14_CallbackPerPageAndStatus ==
    \A w \in files :
        /\ progress[w].status # "pending" =>
              \E x \in delivered[w] : x[1] = progress[w].status
        /\ conversion_type = "pdf_to_png" =>
              \A i \in 1..Len(output_files[w]) :
                  output_files[w][i] - rng[w][1] + 1 \in ReportedPages(w)
        /\ conversion_type = "pdf_to_pptx" =>
              \A k \in 1..Completed(slides[w]) : k \in ReportedPages(w)

\* a finished job that went through three statuses and completed two pages
C14_Witness ==
    \E w \in files :
        /\ pc[w] = "done"
        /\ progress[w].status = "completed"
        /\ {x[1] : x \in delivered[w]} =
              {"preparing", "processing", "completed"}
        /\ \/ Len(output_files[w]) >= 2 /\ conversion_type = "pdf_to_png"
           \/ Completed(slides[w]) >= 2 /\ conversion_type = "pdf_to_pptx"

\* ======================================================================
\* PPTXGenerator: label text
\* ======================================================================
\* A stem is its non-empty parts between underscores, followed by a number
\* of ".pdf" extensions: "report_page_003_3" is <<"report","page","003","3">>.
Segments == {"report", "page", "003", "3"}
Digits == {"003", "3"}

RECURSIVE SeqsUpTo(_, _)
SeqsUpTo(S, n) ==
    IF n = 0 THEN {<<>>}
    ELSE LET shorter == SeqsUpTo(S, n - 1)
         IN shorter \cup {Append(q, x) : q \in shorter, x \in S}

Stem(segs, ext) == [segs |-> segs, ext |-> ext]

\* the text ends in _<digits>, i.e. r'_\d+$' would match
EndsInNumber(f) ==
    f.ext = 0 /\ Len(f.segs) >= 2 /\ f.segs[Len(f.segs)] \in Digits

\* pattern1 = r'_page_\d+_(\d+)$'
MatchesPattern1(f) ==
    /\ EndsInNumber(f)
    /\ Len(f.segs) >= 4
    /\ f.segs[Len(f.segs) - 1] \in Digits
    /\ f.segs[Len(f.segs) - 2] = "page"

\* pattern2 = r'_page_\d+$'
MatchesPattern2(f) ==
    /\ EndsInNumber(f)
    /\ Len(f.segs) >= 3
    /\ f.segs[Len(f.segs) - 1] = "page"

\* pattern3 = r'_\d+_(\d+)$'
MatchesPattern3(f) ==
    /\ EndsInNumber(f)
    /\ Len(f.segs) >= 3
    /\ f.segs[Len(f.segs) - 1] \in Digits

\* f"{base_name}_{page_num}" with base_name = filename[:match.start()]
KeepLastNumber(f, dropped) ==
    [f EXCEPT !.segs = SubSeq(@, 1, Len(@) - dropped - 1)
                          \o <<f.segs[Len(f.segs)]>>]

\* re.sub(pattern2, '', filename)
StripPageSuffix(f) == [f EXCEPT !.segs = SubSeq(@, 1, Len(@) - 2)]

\* after pattern2 the code goes on to pattern3 with the shortened name
AfterPattern2(g) == IF MatchesPattern3(g) THEN KeepLastNumber(g, 1) ELSE g

\* PPTXGenerator._clean_filename
clean_filename(filename) ==
    LET f == IF filename.ext > 0
             THEN [filename EXCEPT !.ext = @ - 1] ELSE filename
    IN IF MatchesPattern1(f) THEN KeepLastNumber(f, 2)
       ELSE IF MatchesPattern2(f) THEN AfterPattern2(StripPageSuffix(f))
       ELSE IF MatchesPattern3(f) THEN KeepLastNumber(f, 1)
       ELSE f

\* ".pdf" repeated e times
RECURSIVE Ext(_)
Ext(e) == IF e = 0 THEN "" ELSE ".pdf" \o Ext(e - 1)

\* the parts between the underscores of the text of a stem
Text(f) ==
    IF f.ext = 0 THEN f.segs
    ELSE SubSeq(f.segs, 1, Len(f.segs) - 1)
            \o <<f.segs[Len(f.segs)] \o Ext(f.ext)>>

\* PPTXGenerator._build_label_text: the parts later joined by " | "
build_label_text(a) ==
    LET numbered == a.add_page_numbers /\ a.page_number # None
        first ==
            IF a.add_filename /\ numbered
            THEN <<Append(Text(clean_filename(a.stem)),
                          ToString(a.page_number))>>
            ELSE IF a.add_filename THEN <<Text(clean_filename(a.stem))>>
            ELSE IF numbered THEN <<<<ToString(a.page_number)>>>>
            ELSE <<>>
    IN first \o (IF a.custom_text THEN <<<<"custom_text">>>> ELSE <<>>)

LabelArgs ==
    [fn : {"label"},
     stem : {Stem(q, e) : q \in SeqsUpTo(Segments, MaxSegs) \ {<<>>},
                          e \in 0..MaxExt},
     page_number : {None, 3},
     add_filename : BOOLEAN, add_page_numbers : BOOLEAN,
     custom_text : BOOLEAN]

InitLabel ==
    /\ InitCalls({1}, "unused", 0)
    /\ pdf_state = [w \in {1} |-> "ok"]
    /\ page_count = [w \in {1} |-> 1]
    /\ stem = [w \in {1} |-> 1]
    /\ conversion_type = "pdf_to_pptx"
    /\ page_range = NoRange
    /\ batch_pc = "none"
    /\ batch_progress = [ConversionProgress(0) EXCEPT !.status = "pending"]
    /\ results = <<>>
    /\ yielded = {}
    /\ args \in LabelArgs
    /\ ret = NoRet
    /\ NoJobs

Frame ==
    UNCHANGED <<files, pdf_state, page_count, stem, conversion_type,
                page_range, is_cancelled, cancel_requested, faults, pc, rng,
                page_num, output_files, attempted, failed, exc, progress,
                result, delivered, pptxVars, tempVars, batchVars, args,
                jobVars>>

CleanFilename ==
    /\ ret = NoRet
    /\ ret' = [fn |-> "clean_filename", value |-> clean_filename(args.stem)]
    /\ Frame

BuildLabelText ==
    /\ ret = NoRet
    /\ ret' = [fn |-> "build_label_text", value |-> build_label_text(args)]
    /\ Frame

NextLabel == CleanFilename \/ BuildLabelText

SpecLabel == InitLabel /\ [][NextLabel]_vars

\* the stems of the two examples
ReportPage003_3 == Stem(<<"report", "page", "003", "3">>, 0)
Report3 == Stem(<<"report", "3">>, 0)

\* C15: with both flags set, the labels of "report_page_003_3" and of
\* "report_3" for page 3 are both "report_3", and cleaning a cleaned stem
\* changes nothing.
C15_CleanupIsFixedPoint ==
    /\ (/\ ret.fn = "build_label_text"
        /\ args.stem \in {ReportPage003_3, Report3}
        /\ args.add_filename /\ args.add_page_numbers
        /\ args.page_number = 3 /\ ~args.custom_text) =>
            ret.value = <<Text(Report3)>>
    /\ ret.fn = "clean_filename" =>
            clean_filename(ret.value) = ret.value

\* C16: only the first matching rule is applied: a stem that ends in
\* _page_<digits> (and not in _page_<digits>_<digits>) is returned with
\* that suffix stripped and nothing else changed.
C16_FirstMatchingRuleOnly ==
    (/\ ret.fn = "clean_filename"
     /\ args.stem.ext = 0
     /\ ~MatchesPattern1(args.stem)
     /\ MatchesPattern2(args.stem)) =>
        ret.value = StripPageSuffix(args.stem)

\* ======================================================================
\* Page geometry: rotation and placement
\* ======================================================================
Sides == {100 * k : k \in 1..MaxSide}
Sizes == Sides \X Sides

\* int(x) of a float x computed as the quotient num / den: the exact
\* floor, or one less when floating point lands just below an exact integer
IntOf(num, den) ==
    IF num % den = 0 THEN {(num \div den) - 1, num \div den}
    ELSE {num \div den}

\* ---- PDF2PPTX pdf_processor -------------------------------------------
\* analyze_page_orientation: is_portrait = width < height
IsPortrait(size) == size[1] < size[2]

\* rotation = 90 if (config.auto_rotate and is_portrait) else 0
RotationNever(auto_rotate, is_portrait) == 0
Rotation(auto_rotate, is_portrait) == IF auto_rotate /\ is_portrait THEN 90 ELSE 0

Swap(size) == <<size[2], size[1]>>

process_page_to_pixmap(page, config) ==
    LET is_portrait == IsPortrait(page)
        rotation == Rotation(config.auto_rotate, is_portrait)
        scaled == <<page[1] * config.scale_factor,
                    page[2] * config.scale_factor>>
    IN [pixmap |-> IF rotation = 90 THEN Swap(scaled) ELSE scaled,
        page_info |->
            [original_size |-> page,
             is_portrait |-> is_portrait,
             was_rotated |-> (rotation = 90),
             final_size |-> IF rotation = 90 THEN Swap(page) ELSE page]]

\* ---- PDF2PPTX_2 PDFProcessor ------------------------------------------
RotationMode == {"none", "auto", "cw_90", "cw_180", "cw_270"}

\* zoom = settings.dpi / 72.0 * settings.scale, as a fraction
Zooms == {<<1, 1>>, <<25, 12>>}

\* page.get_pixmap(matrix): the page rectangle scaled by zoom, rounded to
\* whole pixels one way or the other
Pixmap(page, zoom, round_up) ==
    LET px(x) == IF round_up
                 THEN (x * zoom[1] + zoom[2] - 1) \div zoom[2]
                 ELSE (x * zoom[1]) \div zoom[2]
    IN <<px(page[1]), px(page[2])>>

\* image.rotate(-degrees, expand=True)
Rotated(image, degrees) ==
    [image |-> IF degrees \in {90, 270} THEN Swap(image) ELSE image,
     degrees |-> degrees]

\* PDFProcessor._apply_rotation
apply_rotation(image, page, rotation_mode) ==
    CASE rotation_mode = "none" -> Rotated(image, 0)
      [] rotation_mode = "auto" ->
            LET page_is_landscape == page[1] > page[2]
                image_is_landscape == image[1] > image[2]
            IN IF page_is_landscape # image_is_landscape
               THEN Rotated(image, 90) ELSE Rotated(image, 0)
      [] rotation_mode = "cw_90" -> Rotated(image, 90)
      [] rotation_mode = "cw_180" -> Rotated(image, 180)
      [] rotation_mode = "cw_270" -> Rotated(image, 270)
      [] OTHER -> Rotated(image, 0)

\* PDFProcessor.convert_page_to_image lines 269-284
convert_page_to_image(a) ==
    apply_rotation(Pixmap(a.page, a.zoom, a.round_up), a.page,
                   a.rotation_mode)

\* ---- PDF2PPTX PowerPointConversionService ------------------------------
\* available = int(slide * margin_ratio), margin_ratio = 0.9
Available(slide) == (9 * slide) \div 10

\* scale_ratio = min(width_ratio, height_ratio) is the width ratio
WidthLimitedByMax(iw, ih, aw, ah) == aw * ih >= ah * iw
WidthLimited(iw, ih, aw, ah) == aw * ih <= ah * iw

\* _calculate_fitted_dimensions: the <<width, height>> it can return
calculate_fitted_dimensions(iw, ih, sw, sh) ==
    LET aw == Available(sw)
        ah == Available(sh)
    IN IF iw <= aw /\ ih <= ah THEN {<<iw, ih>>}
       ELSE IF WidthLimited(iw, ih, aw, ah)
       THEN IntOf(iw * aw, iw) \X IntOf(ih * aw, iw)
       ELSE IntOf(iw * ah, ih) \X IntOf(ih * ah, ih)

\* _add_page_to_presentation lines 204-218: fit, centre, add_picture
add_page_picture(a) ==
    {[width |-> f[1], height |-> f[2],
      left |-> (a.slide[1] - f[1]) \div 2,
      top |-> (a.slide[2] - f[2]) \div 2] :
        f \in calculate_fitted_dimensions(a.image[1], a.image[2],
                                          a.slide[1], a.slide[2])}

\* ---- PDF2PPTX_2 PPTXGenerator._add_image_to_slide -----------------------
\* max_width_percent = 90.0, max_height_percent = 80.0: the final
\* <<width, height>> as fractions <<num, den>> before int()
FinalSize(a) ==
    LET aw == a.slide[1] - 2 * a.margin_emu
        ah == a.slide[2] - 2 * a.margin_emu
        iw == a.image[1]
        ih == a.image[2]
    IN IF ~a.maintain_aspect_ratio
       THEN <<<<9 * aw, 10>>, <<8 * ah, 10>>>>
       ELSE IF 9 * aw * ih <= 8 * ah * iw
       THEN <<<<9 * aw, 10>>, <<9 * aw * ih, 10 * iw>>>>
       ELSE <<<<8 * ah * iw, 10 * ih>>, <<8 * ah, 10>>>>

add_image_to_slide(a) ==
    LET final == FinalSize(a)
        fw == final[1]
        fh == final[2]
        lefts == IF a.center_horizontally
                 THEN IntOf(a.slide[1] * fw[2] - fw[1], 2 * fw[2])
                 ELSE {a.margin_emu}
        tops == IF a.center_vertically
                THEN IntOf(a.slide[2] * fh[2] - fh[1], 2 * fh[2])
                ELSE {a.margin_emu}
    IN {[width |-> w, height |-> h, left |-> l, top |-> t] :
            w \in IntOf(fw[1], fw[2]), h \in IntOf(fh[1], fh[2]),
            l \in lefts, t \in tops}

\* ---- the calls -----------------------------------------------------------
GeometryArgs ==
    [fn : {"process_page_to_pixmap"}, page : Sizes,
     config : [auto_rotate : BOOLEAN, scale_factor : {1, 2}]]
    \cup
    [fn : {"convert_page_to_image"}, page : Sizes, zoom : Zooms,
     round_up : BOOLEAN, rotation_mode : RotationMode]
    \cup
    [fn : {"add_page_picture"}, image : Sizes, slide : Sizes]
    \cup
    [fn : {"add_image_to_slide"}, image : Sizes, slide : Sizes,
     margin_emu : {0, 10}, maintain_aspect_ratio : BOOLEAN,
     center_horizontally : BOOLEAN, center_vertically : BOOLEAN]

InitGeometry ==
    /\ InitCalls({1}, "unused", 0)
    /\ pdf_state = [w \in {1} |-> "ok"]
    /\ page_count = [w \in {1} |-> 1]
    /\ stem = [w \in {1} |-> 1]
    /\ conversion_type = "pdf_to_pptx"
    /\ page_range = NoRange
    /\ batch_pc = "none"
    /\ batch_progress = [ConversionProgress(0) EXCEPT !.status = "pending"]
    /\ results = <<>>
    /\ yielded = {}
    /\ args \in GeometryArgs
    /\ ret = NoRet
    /\ NoJobs

Returns(fn, values) ==
    /\ args.fn = fn
    /\ ret = NoRet
    /\ \E v \in values : ret' = [fn |-> fn, value |-> v]
    /\ Frame

ProcessPageToPixmap ==
    /\ args.fn = "process_page_to_pixmap"
    /\ Returns("process_page_to_pixmap",
               {process_page_to_pixmap(args.page, args.config)})

ConvertPageToImage ==
    /\ args.fn = "convert_page_to_image"
    /\ Returns("convert_page_to_image", {convert_page_to_image(args)})

AddPagePicture ==
    /\ args.fn = "add_page_picture"
    /\ Returns("add_page_picture", add_page_picture(args))

AddImageToSlide ==
    /\ args.fn = "add_image_to_slide"
    /\ Returns("add_image_to_slide", add_image_to_slide(args))

NextGeometry ==
    \/ ProcessPageToPixmap
    \/ ConvertPageToImage
    \/ AddPagePicture
    \/ AddImageToSlide

SpecGeometry == InitGeometry /\ [][NextGeometry]_vars

\* ----------------------------------------------------------------------
\* Properties of rotation and placement
\* ----------------------------------------------------------------------
Returned(fn) == ret # NoRet /\ ret.fn = fn

\* C17: under automatic rotation the reported final page size is
\* landscape or square: a portrait page reports (height, width), any
\* other page reports (width, height)
C17_AutoFinalSizeLandscape ==
    (Returned("process_page_to_pixmap") /\ args.config.auto_rotate) =>
        LET final_size == ret.value.page_info.final_size
        IN /\ final_size[1] >= final_size[2]
           /\ final_size = IF args.page[1] < args.page[2]
                           THEN <<args.page[2], args.page[1]>>
                           ELSE args.page

C17_Witness ==
    /\ Returned("process_page_to_pixmap")
    /\ args.config.auto_rotate
    /\ args.page = <<200, 300>>
    /\ ret.value.page_info.final_size = <<300, 200>>

\* C18: under the auto policy the rasterizer turns the bitmap 90 degrees
\* clockwise exactly when the page is portrait, so the bitmap is at least
\* as wide as it is high; under the none policy it is never turned
C18_AutoRotatesPortraitBitmap ==
    Returned("convert_page_to_image") =>
        /\ args.rotation_mode = "auto" =>
              /\ (ret.value.degrees = 90) <=> (args.page[1] < args.page[2])
              /\ ret.value.image[1] >= ret.value.image[2]
        /\ args.rotation_mode = "none" => ret.value.degrees = 0

\* x * num / den, cut to an integer, is f
Truncated(f, x, num, den) == f * den <= x * num /\ x * num <= (f + 1) * den

AvailableArea(a) ==
    IF a.fn = "add_page_picture"
    THEN <<(9 * a.slide[1]) \div 10, (9 * a.slide[2]) \div 10>>
    ELSE <<a.slide[1] - 2 * a.margin_emu, a.slide[2] - 2 * a.margin_emu>>

\* C20: content that fits within the available area on both axes is
\* placed at its own size, neither reduced nor enlarged, and centred
C20_FittingContentUnscaled ==
    (/\ Returned("add_page_picture") \/ Returned("add_image_to_slide")
     /\ args.image[1] <= AvailableArea(args)[1]
     /\ args.image[2] <= AvailableArea(args)[2]) =>
        /\ ret.value.width = args.image[1]
        /\ ret.value.height = args.image[2]
        /\ ret.value.left = (args.slide[1] - ret.value.width) \div 2
        /\ ret.value.top = (args.slide[2] - ret.value.height) \div 2

\* ======================================================================
\* Unit conversion (IEEE 754 double arithmetic of the Python floats)
\* ======================================================================
\* Natural numbers beyond the integer range: six digits of base 2^15,
\* least significant first
Base == 2 ^ 15
LimbIx == 1..6

Big(n) == <<n % Base, (n \div Base) % Base, n \div (Base * Base), 0, 0, 0>>

\* the small number a Big stands for
ToInt(a) == a[1] + Base * a[2] + Base * Base * a[3]

\* carry propagation over digits that left the range 0..Base-1
Norm(v) ==
    LET RECURSIVE go(_, _)
        go(i, c) == IF i > 6 THEN <<>>
                    ELSE <<(v[i] + c) % Base>>
                         \o go(i + 1, (v[i] + c) \div Base)
    IN go(1, 0)

BigAdd(a, b) == Norm([i \in LimbIx |-> a[i] + b[i]])
BigSub(a, b) == Norm([i \in LimbIx |-> a[i] - b[i]])
BigScale(a, k) == Norm([i \in LimbIx |-> a[i] * k])
BigLess(a, b) ==
    \E i \in LimbIx : a[i] < b[i] /\ \A j \in LimbIx : j > i => a[j] = b[j]
\* a * 2^k and floor(a / 2^k): whole digits first, then single bits
ShiftLeft(a, k) ==
    LET n == k \div 15
        d(i) == IF i > n THEN a[i - n] * 2 ^ (k % 15) ELSE 0
    IN IF k <= 0 THEN a ELSE Norm(<<d(1), d(2), d(3), d(4), d(5), d(6)>>)

ShiftRight(a, k) ==
    LET n == k \div 15
        r == 2 ^ (k % 15)
        at(i) == IF i + n <= 6 THEN a[i + n] ELSE 0
        d(i) == (at(i) \div r) + (at(i + 1) % r) * (Base \div r)
    IN IF k <= 0 THEN a ELSE <<d(1), d(2), d(3), d(4), d(5), d(6)>>

BitLen(a) ==
    LET RECURSIVE bits(_)
        bits(n) == IF n = 0 THEN 0 ELSE 1 + bits(n \div 2)
        used == {i \in LimbIx : a[i] # 0}
        top == CHOOSE i \in used : \A j \in used : j <= i
    IN IF used = {} THEN 0 ELSE 15 * (top - 1) + bits(a[top])

\* A double is m * 2^e with m of at most 53 bits. Rounding a longer
\* mantissa (sticky: a non-zero part below m was already dropped): to
\* nearest, ties to even
RoundTo53(m, e, sticky) ==
    LET k == BitLen(m) - 53
        q == ShiftRight(m, k)
        low == BigSub(m, ShiftLeft(q, k))
        half == ShiftLeft(Big(1), k - 1)
        up == \/ BigLess(half, low)
              \/ low = half /\ (sticky \/ q[1] % 2 = 1)
    IN IF k <= 0 THEN [m |-> m, e |-> e]
       ELSE [m |-> IF up THEN BigAdd(q, Big(1)) ELSE q, e |-> e + k]

\* long division: n more hexadecimal digits of the quotient xm / ym,
\* and the remainder
RECURSIVE DivDigits(_, _, _)
DivDigits(xm, ym, n) ==
    IF n = 0
    THEN IF BigLess(xm, ym) THEN [q |-> Big(0), rem |-> xm]
         ELSE [q |-> Big(1), rem |-> BigSub(xm, ym)]
    ELSE LET s == DivDigits(xm, ym, n - 1)
             r == BigScale(s.rem, 16)
             d == CHOOSE d \in 0..15 :
                      /\ ~BigLess(r, BigScale(ym, d))
                      /\ BigLess(r, BigScale(ym, d + 1))
         IN IF s.rem = Big(0) THEN [q |-> BigScale(s.q, 16), rem |-> s.rem]
            ELSE [q |-> BigAdd(BigScale(s.q, 16), Big(d)),
                  rem |-> BigSub(r, BigScale(ym, d))]

\* the float x / y: mantissas aligned, 56 quotient bits, then rounded
FDiv(x, y) ==
    LET lx == BitLen(x.m)
        ly == BitLen(y.m)
        xm == ShiftLeft(x.m, ly - lx)
        ym == ShiftLeft(y.m, lx - ly)
        xe == IF ly > lx THEN x.e - (ly - lx) ELSE x.e
        ye == IF lx > ly THEN y.e - (lx - ly) ELSE y.e
        s == DivDigits(xm, ym, 14)
    IN IF lx = 0 THEN x
       ELSE RoundTo53(s.q, xe - ye - 56, s.rem # Big(0))

\* the float x * (k * 2^sh) for a constant with k < 2^15
FScale(x, k, sh) == RoundTo53(BigScale(x.m, k), x.e + sh, FALSE)

\* int(x) for x >= 0: truncation
FInt(x) ==
    IF x.e >= 0 THEN ToInt(ShiftLeft(x.m, x.e))
    ELSE ToInt(ShiftRight(x.m, 0 - x.e))

\* float arguments n / 2^frac_bits: exactly representable
Dyadic(n, frac_bits) == [m |-> Big(n), e |-> 0 - frac_bits]

\* the literals 25.4, 72, 36000 and 914400 as doubles
F25_4 == [m |-> <<13107, 26214, 19660, 101, 0, 0>>, e |-> -47]
F72 == [m |-> Big(9), e |-> 3]
F36000 == [m |-> Big(1125), e |-> 5]
F914400 == [m |-> Big(28575), e |-> 5]

\* PDF2PPTX pdf_processor: int((mm / 25.4) * 914400), 914400 = 28575 * 2^5
mm_to_emu(mm) == FInt(FScale(FDiv(mm, F25_4), 28575, 5))

\* int((points / 72) * 914400)
points_to_emu(points) == FInt(FScale(FDiv(points, F72), 28575, 5))

\* PDF2PPTX_2 _set_slide_size: int(settings.width_mm * 36000)
set_slide_size(mm) == FInt(FScale(mm, 1125, 5))

\* get_presentation_info: prs.slide_width / 36000
slide_width_inches(emu) == FDiv([m |-> Big(emu), e |-> 0], F914400)
slide_width_mm(emu) == FDiv([m |-> Big(emu), e |-> 0], F36000)

UnitArgs ==
    [fn : {"mm_to_emu", "points_to_emu", "set_slide_size"},
     n : 0..MaxUnits, frac_bits : {0, 6}]

InitUnits ==
    /\ InitCalls({1}, "unused", 0)
    /\ pdf_state = [w \in {1} |-> "ok"]
    /\ page_count = [w \in {1} |-> 1]
    /\ stem = [w \in {1} |-> 1]
    /\ conversion_type = "pdf_to_pptx"
    /\ page_range = NoRange
    /\ batch_pc = "none"
    /\ batch_progress = [ConversionProgress(0) EXCEPT !.status = "pending"]
    /\ results = <<>>
    /\ yielded = {}
    /\ args \in UnitArgs
    /\ ret = NoRet
    /\ NoJobs

MmToEmu ==
    Returns("mm_to_emu", {mm_to_emu(Dyadic(args.n, args.frac_bits))})

PointsToEmu ==
    Returns("points_to_emu", {points_to_emu(Dyadic(args.n, args.frac_bits))})

SetSlideSize ==
    Returns("set_slide_size", {set_slide_size(Dyadic(args.n, args.frac_bits))})

\* reading the saved presentation back
GetPresentationInfo ==
    /\ Returned("set_slide_size")
    /\ ret' = [fn |-> "get_presentation_info", slide_width |-> ret.value,
               value |-> slide_width_mm(ret.value)]
    /\ Frame

NextUnits ==
    \/ MmToEmu
    \/ PointsToEmu
    \/ SetSlideSize
    \/ GetPresentationInfo

SpecUnits == InitUnits /\ [][NextUnits]_vars

\* |v - n / 2^frac_bits| < 1 / 36000 for a double v, in exact arithmetic
WithinOneUnit(v, n, frac_bits) ==
    LET t == 0 - (v.e + frac_bits)
        exact == ShiftLeft(Big(n), t)
        diff == IF BigLess(v.m, exact) THEN BigSub(exact, v.m)
                ELSE BigSub(v.m, exact)
    IN IF BitLen(v.m) = 0 THEN n = 0
       ELSE /\ t >= 0
            /\ BigLess(ShiftLeft(BigScale(diff, 1125), 5),
                       ShiftLeft(Big(1), 0 - v.e))

\* C21: converting millimetres to the native unit by truncation and back
\* loses less than one native unit: |back - mm| < 1/36000 for every mm >= 0
C21_RoundTripWithinOneUnit ==
    /\ Returned("get_presentation_info") =>
          WithinOneUnit(ret.value, args.n, args.frac_bits)
    /\ Returned("mm_to_emu") =>
          LET den == 2 ^ args.frac_bits
              d == 36000 * args.n - ret.value * den
          IN -den < d /\ d < den

C21_Witness ==
    /\ Returned("get_presentation_info")
    /\ args.n = 1 /\ args.frac_bits = 6
    /\ ret.slide_width = 562

\* C22: both conversions are the truncated linear ones:
\* mm_to_emu(mm) = trunc(mm * 36000) and points_to_emu(p) = trunc(p * 12700)
C22_TruncatedLinear ==
    /\ Returned("mm_to_emu") =>
          ret.value = (args.n * 36000) \div (2 ^ args.frac_bits)
    /\ Returned("points_to_emu") =>
          ret.value = (args.n * 12700) \div (2 ^ args.frac_bits)

\* ----------------------------------------------------------------------
\* Page numbers and page ranges
\* ----------------------------------------------------------------------
\* the requested range is not inside the document of file w
BadRange(w) ==
    /\ page_range # NoRange
    /\ \/ page_range[1] < 1
       \/ page_range[2] > page_count[w]
       \/ page_range[1] > page_range[2]

\* C24: a page number outside 1..page_count never yields a bitmap, and a
\* page range with start < 1, end > page_count or start > end is rejected
\* before any page is processed
C24_BadPagesAndRangesRejected ==
    \A w \in files :
        /\ \A p \in SeqToSet(output_files[w]) : 1 <= p /\ p <= page_count[w]
        /\ BadRange(w) => attempted[w] = <<>>

\* ======================================================================
\* Checked arguments: configuration objects and the target of a save
\* ======================================================================
\* ---- PDF2PPTX ConversionConfig (scale factors in halves: 3 is 1.5) -------
ScaleInvalidIfNegative(scale_factor) == scale_factor < 0
ScaleInvalid(scale_factor) == scale_factor <= 0

\* ConversionConfig.__post_init__: the error raised, or "" for none
post_init(c) ==
    IF ScaleInvalid(c.scale_factor) THEN "Scale factor must be positive"
    ELSE IF c.target_dpi < 72 THEN "DPI must be at least 72"
    ELSE ""

\* validate_conversion_config: the error raised, or "" for none
validate_conversion_config(c) ==
    IF c.scale_factor <= 0 \/ c.scale_factor > 2 * 10
    THEN "Scale factor must be between 0 and 10"
    ELSE IF c.slide_width_mm <= 0 \/ c.slide_height_mm <= 0
    THEN "Slide dimensions must be positive"
    ELSE IF c.target_dpi < 72 \/ c.target_dpi > 600
    THEN "DPI must be between 72 and 600"
    ELSE ""

Configs ==
    [scale_factor : -2..22, target_dpi : {0, 50, 71, 72, 150, 600, 601},
     slide_width_mm : {-420, 0, 420}, slide_height_mm : {0, 297}]

\* ---- PDF2PPTX_2 PPTXGenerator.save_presentation --------------------------
\* the existing-file check lets the save go on
MayWriteAlways(exists, overwrite) == TRUE
MayWrite(exists, overwrite) == ~(exists /\ ~overwrite)

\* the outcome of save_presentation and the file at output_path afterwards;
\* write_ok: prs.save and the directory creation do not fail
save_presentation(a) ==
    IF ~a.write_ok /\ MayWrite(a.exists, a.overwrite)
    THEN {[outcome |-> "OSError", file |-> f] :
             f \in IF a.exists THEN {"old", "damaged"} ELSE {"none", "damaged"}}
    ELSE IF ~MayWrite(a.exists, a.overwrite)
    THEN {[outcome |-> "FileExistsError", file |-> "old"]}
    ELSE {[outcome |-> "True", file |-> "new"]}

CheckedArgs ==
    [fn : {"ConversionConfig"}, config : Configs]
    \cup
    [fn : {"save_presentation"}, exists : BOOLEAN, overwrite : BOOLEAN,
     write_ok : BOOLEAN]

InitChecked ==
    /\ InitCalls({1}, "unused", 0)
    /\ pdf_state = [w \in {1} |-> "ok"]
    /\ page_count = [w \in {1} |-> 1]
    /\ stem = [w \in {1} |-> 1]
    /\ conversion_type = "pdf_to_pptx"
    /\ page_range = NoRange
    /\ batch_pc = "none"
    /\ batch_progress = [ConversionProgress(0) EXCEPT !.status = "pending"]
    /\ results = <<>>
    /\ yielded = {}
    /\ args \in CheckedArgs
    /\ ret = NoRet
    /\ NoJobs

\* ConversionConfig(...): the dataclass constructor runs __post_init__
NewConversionConfig ==
    Returns("ConversionConfig", {post_init(args.config)})

\* validate_conversion_config(config) on a constructed object
ValidateConversionConfig ==
    /\ Returned("ConversionConfig")
    /\ ret.value = ""
    /\ ret' = [fn |-> "validate_conversion_config",
               value |-> validate_conversion_config(args.config)]
    /\ Frame

SavePresentation ==
    Returns("save_presentation", save_presentation(args))

NextChecked ==
    \/ NewConversionConfig
    \/ ValidateConversionConfig
    \/ SavePresentation

SpecChecked == InitChecked /\ [][NextChecked]_vars

\* C23: saving to an existing path without overwrite fails with a
\* file-exists error and leaves the file as it was; in every other case
\* (the write itself not failing) the document is written and the save
\* reports success
C23_SaveRespectsOverwrite ==
    Returned("save_presentation") =>
        IF args.exists /\ ~args.overwrite
        THEN ret.value = [outcome |-> "FileExistsError", file |-> "old"]
        ELSE args.write_ok => ret.value = [outcome |-> "True", file |-> "new"]

C23_Witness ==
    /\ Returned("save_presentation")
    /\ args.exists /\ ~args.overwrite /\ args.write_ok
    /\ ret.value.outcome = "FileExistsError"

\* C25: no configuration object with a non-positive scale factor or a
\* resolution under 72 is constructed: the constructor raises "Scale factor
\* must be positive", resp. "DPI must be at least 72"; a configuration with
\* valid values passes validate_conversion_config
C25_InvalidConfigRejected ==
    /\ Returned("ConversionConfig") =>
          LET c == args.config IN
          /\ c.scale_factor <= 0 =>
                ret.value = "Scale factor must be positive"
          /\ (c.scale_factor > 0 /\ c.target_dpi < 72) =>
                ret.value = "DPI must be at least 72"
          /\ ret.value = "" => c.scale_factor > 0 /\ c.target_dpi >= 72
    /\ Returned("validate_conversion_config") =>
          LET c == args.config IN
          /\ c.scale_factor > 0 /\ c.target_dpi >= 72
          /\ (/\ c.scale_factor <= 20 /\ c.target_dpi <= 600
              /\ c.slide_width_mm > 0 /\ c.slide_height_mm > 0) =>
                ret.value = ""

C25_Witness ==
    /\ Returned("ConversionConfig")
    /\ args.config.scale_factor = 0
    /\ ret.value = "Scale factor must be positive"

\* ---- the asynchronous job service (PDF2PPTX application layer) ---------
\* a job is [status, output_type, at, progress, result_files,
\* error_message]; `at` is the position of the coroutine that converts it:
\* "executor" while it awaits run_in_executor, "worker_returned" and
\* "worker_raised" once the worker thread is done, "returned" afterwards

JobIds == 1..(MaxJobs + 1)     \* job_<MaxJobs + 1> is never created

callVars == <<files, pdf_state, page_count, stem, conversion_type,
              page_range, is_cancelled, cancel_requested, faults, pc, rng,
              page_num, output_files, attempted, failed, exc, progress,
              result, delivered, pptxVars, tempVars, batchVars, args>>

InitJobs ==
    /\ InitCalls({1}, "unused", 0)
    /\ pdf_state = [w \in {1} |-> "ok"]
    /\ page_count = [w \in {1} |-> 1]
    /\ stem = [w \in {1} |-> 1]
    /\ conversion_type = "pdf_to_pptx"
    /\ page_range = NoRange
    /\ batch_pc = "none"
    /\ batch_progress = [ConversionProgress(0) EXCEPT !.status = "pending"]
    /\ results = <<>>
    /\ yielded = {}
    /\ NoCall

\* convert_to_images_async / convert_to_pptx_async up to the await of
\* run_in_executor: _create_job, then the head of _execute_conversion_job
ConvertAsync(output_type) ==
    /\ Len(jobs) < MaxJobs
    /\ jobs' = Append(jobs, [status |-> "running",
                             output_type |-> output_type,
                             at |-> "executor",
                             progress |-> 0,
                             result_files |-> "none",
                             error_message |-> "none"])
    /\ active_jobs' = active_jobs \cup {Len(jobs) + 1}
    /\ ret' = [fn |-> "create_job", job_id |-> Len(jobs) + 1]
    /\ UNCHANGED <<callVars, entity>>

\* the worker thread reports progress through update_progress
UpdateProgress(j) ==
    /\ jobs[j].at = "executor"
    /\ jobs[j].progress = 0
    /\ jobs' = [jobs EXCEPT ![j].progress = 50]
    /\ UNCHANGED <<callVars, active_jobs, entity, ret>>

\* _convert_to_images_sync / _convert_to_pptx_sync return in the worker
\* thread; the image worker may have recorded the error of a file
WorkerReturns(j) ==
    /\ jobs[j].at = "executor"
    /\ \E msg \in IF jobs[j].output_type = "png"
                  THEN {jobs[j].error_message, "set"}
                  ELSE {jobs[j].error_message} :
          jobs' = [jobs EXCEPT ![j].at = "worker_returned",
                               ![j].error_message = msg]
    /\ UNCHANGED <<callVars, active_jobs, entity, ret>>

\* _convert_to_pptx_sync records the error and raises it again
WorkerRaises(j) ==
    /\ jobs[j].at = "executor"
    /\ jobs[j].output_type = "pptx"
    /\ jobs' = [jobs EXCEPT ![j].at = "worker_raised",
                            ![j].error_message = "set"]
    /\ UNCHANGED <<callVars, active_jobs, entity, ret>>

\* _execute_conversion_job after the await, and the return of the job
ExecuteConversionJob(j) ==
    /\ jobs[j].at = "worker_returned"
    /\ jobs' = [jobs EXCEPT
                  ![j].at = "returned",
                  ![j].result_files = "set",
                  ![j].status = "completed",
                  ![j].progress = 100]
    /\ UNCHANGED <<callVars, active_jobs, entity, ret>>

\* the except branch of convert_to_..._async, and the return of the job
ConversionFailed(j) ==
    /\ jobs[j].at = "worker_raised"
    /\ jobs' = [jobs EXCEPT ![j].at = "returned",
                            ![j].status = "failed",
                            ![j].error_message = "set"]
    /\ UNCHANGED <<callVars, active_jobs, entity, ret>>

cancel_job(job_id) ==
    job_id \in active_jobs /\ jobs[job_id].status = "running"

CancelJob(job_id) ==
    /\ jobs' = IF cancel_job(job_id)
               THEN [jobs EXCEPT ![job_id].status = "cancelled"]
               ELSE jobs
    /\ ret' = [fn |-> "cancel_job", job_id |-> job_id,
               value |-> cancel_job(job_id)]
    /\ UNCHANGED <<callVars, active_jobs, entity>>

CleanupCompletedJobs ==
    /\ active_jobs' =
          {j \in active_jobs :
              jobs[j].status \notin {"completed", "failed", "cancelled"}}
    /\ ret' = [fn |-> "cleanup_completed_jobs"]
    /\ UNCHANGED <<callVars, jobs, entity>>

NextJobs ==
    \/ \E output_type \in {"png", "pptx"} : ConvertAsync(output_type)
    \/ \E j \in DOMAIN jobs : UpdateProgress(j)
    \/ \E j \in DOMAIN jobs : WorkerReturns(j)
    \/ \E j \in DOMAIN jobs : WorkerRaises(j)
    \/ \E j \in DOMAIN jobs : ExecuteConversionJob(j)
    \/ \E j \in DOMAIN jobs : ConversionFailed(j)
    \/ \E job_id \in JobIds : CancelJob(job_id)
    \/ CleanupCompletedJobs

SpecJobs == InitJobs /\ [][NextJobs]_vars

\* C26: a job that cancel_job cancelled (the call returned True, which is
\* the only way a status becomes "cancelled") keeps the status "cancelled",
\* so it has it when the conversion call returns and is never completed
\* afterwards; a call of cancel_job for an unknown job or for a job that is
\* not running returns False and changes no job and no registration
C26_CancelledJobStaysCancelled ==
    [][/\ \A j \in DOMAIN jobs :
             jobs[j].status = "cancelled" => jobs'[j].status = "cancelled"
       /\ (ret' # ret /\ ret'.fn = "cancel_job") =>
             /\ ret'.value =
                   (/\ ret'.job_id \in active_jobs
                    /\ jobs[ret'.job_id].status = "running")
             /\ ret'.value => jobs'[ret'.job_id].status = "cancelled"
             /\ ~ret'.value => jobs' = jobs /\ active_jobs' = active_jobs]_vars

\* ---- the ConversionJob entity (PDF2PPTX domain model) ------------------
\* entity.now is the reading of the clock that datetime.now() returns

Results == {"r1", "r2"}
Errors == {"e1", "e2"}

InitEntity ==
    /\ InitCalls({1}, "unused", 0)
    /\ pdf_state = [w \in {1} |-> "ok"]
    /\ page_count = [w \in {1} |-> 1]
    /\ stem = [w \in {1} |-> 1]
    /\ conversion_type = "pdf_to_pptx"
    /\ page_range = NoRange
    /\ batch_pc = "none"
    /\ batch_progress = [ConversionProgress(0) EXCEPT !.status = "pending"]
    /\ results = <<>>
    /\ yielded = {}
    /\ args = NoArgs
    /\ ret = NoRet
    /\ jobs = <<>>
    /\ active_jobs = {}
    /\ entity = [status |-> "pending",
                 results |-> <<>>,
                 error_message |-> "none",
                 started_at |-> None,
                 completed_at |-> None,
                 current_page |-> 0,
                 total_pages |-> page_count[1],
                 now |-> 1]

is_completed(job) == job.status \in {"completed", "failed", "cancelled"}

can_be_cancelled_always(job) == TRUE

can_be_cancelled(job) == job.status \in {"pending", "running", "paused"}

\* a method that raises ValueError unless `allowed`, and otherwise leaves
\* the entity as `changed`
Method(fn, allowed, changed) ==
    /\ entity # NoEntity
    /\ IF allowed
       THEN entity' = changed /\ ret' = [fn |-> fn, value |-> "None"]
       ELSE entity' = entity /\ ret' = [fn |-> fn, value |-> "ValueError"]
    /\ UNCHANGED <<callVars, jobs, active_jobs>>

Start ==
    Method("start", entity.status = "pending",
           [entity EXCEPT !.status = "running",
                          !.started_at = entity.now,
                          !.error_message = "none",
                          !.now = @ + 1])

Pause ==
    Method("pause", entity.status = "running",
           [entity EXCEPT !.status = "paused"])

Resume ==
    Method("resume", entity.status = "paused",
           [entity EXCEPT !.status = "running"])

Cancel ==
    Method("cancel", can_be_cancelled(entity),
           [entity EXCEPT !.status = "cancelled",
                          !.completed_at = entity.now,
                          !.now = @ + 1])

CompleteSuccessfully(rs) ==
    Method("complete_successfully", entity.status = "running",
           [entity EXCEPT !.status = "completed",
                          !.completed_at = entity.now,
                          !.results = rs,
                          !.current_page = entity.total_pages,
                          !.now = @ + 1])

Fail(error_message) ==
    Method("fail", entity.status \in {"running", "paused"},
           [entity EXCEPT !.status = "failed",
                          !.completed_at = entity.now,
                          !.error_message = error_message,
                          !.now = @ + 1])

AddResult(r) ==
    /\ Len(entity.results) < MaxResults
    /\ Method("add_result", TRUE,
              [entity EXCEPT !.results = Append(@, r)])

NextEntity ==
    \/ Start
    \/ Pause
    \/ Resume
    \/ Cancel
    \/ \E r \in Results : CompleteSuccessfully(<<r>>)
    \/ \E e \in Errors : Fail(e)
    \/ \E r \in Results : AddResult(r)

SpecEntity == InitEntity /\ [][NextEntity]_vars

\* C28: the status of a ConversionJob entity changes only along start:
\* pending -> running, pause: running -> paused, resume: paused -> running,
\* cancel: pending, running or paused -> cancelled, complete_successfully:
\* running -> completed, fail: running or paused -> failed; every other
\* call of these six raises ValueError, and a call that raises leaves
\* status, completed_at, results and error_message as they were; completed,
\* failed and cancelled are never left
C28_StatusTransitions ==
    [][LET Allowed ==
               {<<"pending", "start", "running">>,
                <<"running", "pause", "paused">>,
                <<"paused", "resume", "running">>,
                <<"pending", "cancel", "cancelled">>,
                <<"running", "cancel", "cancelled">>,
                <<"paused", "cancel", "cancelled">>,
                <<"running", "complete_successfully", "completed">>,
                <<"running", "fail", "failed">>,
                <<"paused", "fail", "failed">>}
           Transitions ==
               {"start", "pause", "resume", "cancel",
                "complete_successfully", "fail"}
       IN  /\ entity'.status # entity.status =>
                 <<entity.status, ret'.fn, entity'.status>> \in Allowed
           /\ (/\ ret' # ret
               /\ ret'.fn \in Transitions
               /\ \A t \in Allowed : <<t[1], t[2]>>
                                        # <<entity.status, ret'.fn>>) =>
                 ret'.value = "ValueError"
           /\ (ret' # ret /\ ret'.value = "ValueError") =>
                 /\ entity'.status = entity.status
                 /\ entity'.completed_at = entity.completed_at
                 /\ entity'.results = entity.results
                 /\ entity'.error_message = entity.error_message
           /\ is_completed(entity) => entity'.status = entity.status]_vars

C28_Witness ==
    /\ entity # NoEntity
    /\ entity.status = "completed"
    /\ ret = [fn |-> "cancel", value |-> "ValueError"]

\* ---- cancellation of a parallel batch ----------------------------------
\* C27: a cancellation requested while batch_convert_pdfs runs is not lost:
\* from the call of cancel_conversion() on, the flag that
\* is_conversion_cancelled() returns stays set until the batch returns, and
\* a batch that returns with the flag set and without an exception has the
\* final status "cancelled"
C27_BatchCancellationKept ==
    [][(is_cancelled /\ batch_pc \in {"b_validate", "b_collect", "b_exit"}) =>
          /\ is_cancelled'
          /\ batch_pc' = "b_done" =>
                batch_progress'.status = "cancelled"]_vars

\* ---- slide labels ------------------------------------------------------
\* C29: in a PDF to presentation conversion the page number in the label of
\* a slide is the number of the source PDF page shown on that slide, also
\* after a skipped page, a failed slide insertion or with a page range that
\* does not start at page 1
C29_LabelIsSourcePage ==
    \A w \in files :
        \A i \in 1..Len(slides[w]) :
            slides[w][i].label # None => slides[w][i].label = slides[w][i].src

\* ---- output files of a batch -------------------------------------------
\* C30: in a parallel PDF to presentation batch no two input files write
\* the same output path, so the presentation a worker saved is not
\* overwritten by another worker, also when two inputs share their stem
C30_OutputPathsDistinct ==
    \A w \in files :
        /\ saved[w] = "ok" => fs_out[stem[w]] = w
        /\ \A v \in files \ {w} :
              (saved[w] = "ok" /\ saved[v] = "ok") => stem[w] # stem[v]

====
